---- MODULE Spec2Model ----
(***************************************************************************)
(* A model of generate_sales (src/seed_textiles_full.py): the day-by-day   *)
(* simulation that writes synthetic sale rows to the sales table, with its *)
(* batched commits.                                                        *)
(*                                                                         *)
(* Encodings.                                                              *)
(*   - A date is a record [year, month, day]; strings the code builds are  *)
(*     tuples of one-character strings, so formatting is computed.         *)
(*   - Prices are integers in thousandths of a currency unit; the SQL NULL *)
(*     (Python None) of a price column is NULL.                            *)
(*   - An optional text (holiday_name) is <<>> for None and <<s>> for the  *)
(*     string s.                                                           *)
(*   - The demand multiplier is kept in thousandths (1.0 is 1000) and the  *)
(*     two configured multipliers in tenths (1.6 is 16).                   *)
(*   - The configuration the module reads (START_DATE, END_DATE,           *)
(*     BATCH_COMMIT) and the tables and lookup it is handed are variables  *)
(*     fixed by Init, so that one model covers several configurations.     *)
(***************************************************************************)
EXTENDS Integers, Sequences, FiniteSets, TLC

VARIABLES
    START_DATE,          \* first date of the range
    END_DATE,            \* last date of the range (inclusive)
    BATCH_COMMIT,        \* rows per intermediate commit
    holidays,            \* the lookup handed to generate_sales: date string -> name
    products,            \* rows of table products, in SELECT order
    variants,            \* rows of table product_variants, in SELECT order
    pc,                  \* "start", "day", "txn", "done", "error", "interrupted"
    current_date,
    txn_counter,
    rows_inserted,
    commit_counter,
    today,               \* the locals computed at the top of a day-loop iteration
    loop_left,           \* iterations of the inner for loop still to run
    pending,             \* rows inserted in the open database transaction
    sales,               \* committed rows of table sales
    emitted,             \* history: every row handed to cur.execute, in order
    attempts,            \* history: every attempted transaction, in order
    visited,             \* history: current_date of every day-loop iteration
    commits,             \* history: rows made durable by each conn.commit()
    sample               \* <<>>, or <<[r, pid]>>: a draw handed to sample_product_id alone
                         \* and the product id it returned

config == <<START_DATE, END_DATE, BATCH_COMMIT, holidays, products, variants>>
locals == <<current_date, txn_counter, rows_inserted, commit_counter, today, loop_left>>
db     == <<pending, sales>>
hist   == <<emitted, attempts, visited, commits>>
vars   == <<config, pc, locals, db, hist, sample>>

(***************************************************************************)
(* Bounds of the model.                                                    *)
(***************************************************************************)
MaxSpan   == 1     \* END_DATE is at most this many days after START_DATE
MaxTxn    == 2     \* a day's count is drawn above 1 only while the run's attempts stay within this
MaxBatch  == 2     \* largest BATCH_COMMIT configured

(***************************************************************************)
(* Program constants.                                                      *)
(***************************************************************************)
AVG_TRANSACTIONS_PER_DAY == 120
WEEKEND_MULTIPLIER  == 16      \* 1.6, in tenths
FESTIVAL_MULTIPLIER == 22      \* 2.2, in tenths
SEASONAL_MULTIPLIER == 12      \* the literal 1.2, in tenths
NULL == 0 - 1                  \* None / SQL NULL in a price column

(***************************************************************************)
(* The calendar, as datetime computes it.                                  *)
(***************************************************************************)
Date(y, m, d) == [year |-> y, month |-> m, day |-> d]

IsLeap(y) == y % 4 = 0 /\ (y % 100 # 0 \/ y % 400 = 0)

DaysInMonth(y, m) ==
    IF m = 2 THEN (IF IsLeap(y) THEN 29 ELSE 28)
    ELSE IF m \in {4, 6, 9, 11} THEN 30 ELSE 31

DaysBeforeYear(y) ==
    LET p == y - 1 IN p * 365 + (p \div 4) - (p \div 100) + (p \div 400)

RECURSIVE DaysBeforeMonth(_, _)
DaysBeforeMonth(y, m) ==
    IF m = 1 THEN 0 ELSE DaysBeforeMonth(y, m - 1) + DaysInMonth(y, m - 1)

\* date.toordinal(): 1 for 0001-01-01
ToOrdinal(dt) == DaysBeforeYear(dt.year) + DaysBeforeMonth(dt.year, dt.month) + dt.day

\* date.weekday(): Monday is 0, Sunday is 6
Weekday(dt) == (ToOrdinal(dt) + 6) % 7

\* fault: the loop test written current_date < END_DATE
DateLeq_Strict(a, b) ==
    \/ a.year < b.year
    \/ a.year = b.year /\ a.month < b.month
    \/ a.year = b.year /\ a.month = b.month /\ a.day < b.day

\* current_date <= END_DATE
DateLeq(a, b) ==
    \/ a.year < b.year
    \/ a.year = b.year /\ a.month < b.month
    \/ a.year = b.year /\ a.month = b.month /\ a.day <= b.day

\* dt + timedelta(days=1)
PlusOneDay(dt) ==
    IF dt.day < DaysInMonth(dt.year, dt.month) THEN Date(dt.year, dt.month, dt.day + 1)
    ELSE IF dt.month < 12 THEN Date(dt.year, dt.month + 1, 1)
    ELSE Date(dt.year + 1, 1, 1)

\* dt - timedelta(days=1), used only to build a range that ends before it starts
MinusOneDay(dt) ==
    IF dt.day > 1 THEN Date(dt.year, dt.month, dt.day - 1)
    ELSE IF dt.month > 1 THEN Date(dt.year, dt.month - 1, DaysInMonth(dt.year, dt.month - 1))
    ELSE Date(dt.year - 1, 12, 31)

RECURSIVE PlusDays(_, _)
PlusDays(dt, n) == IF n = 0 THEN dt ELSE PlusDays(PlusOneDay(dt), n - 1)

(***************************************************************************)
(* String formatting.                                                      *)
(***************************************************************************)
DigitChar(d) == <<"0", "1", "2", "3", "4", "5", "6", "7", "8", "9">>[d + 1]

\* "%d" of a natural number: no padding
RECURSIVE Decimal(_)
Decimal(n) == IF n < 10 THEN <<DigitChar(n)>> ELSE Decimal(n \div 10) \o <<DigitChar(n % 10)>>

\* zero-padded to width w
RECURSIVE Padded(_, _)
Padded(n, w) == IF w = 0 THEN <<>> ELSE Padded(n \div 10, w - 1) \o <<DigitChar(n % 10)>>

\* current_date.strftime("%Y-%m-%d")
Strftime(dt) == Padded(dt.year, 4) \o <<"-">> \o Padded(dt.month, 2) \o <<"-">> \o Padded(dt.day, 2)

\* date_str.replace('-', '')
RemoveDashes(s) == SelectSeq(s, LAMBDA c : c # "-")

\* f"TX{date_str.replace('-','')}-{txn_counter}"
TxnId(date_str, n) == <<"T", "X">> \o RemoveDashes(date_str) \o <<"-">> \o Decimal(n)

(***************************************************************************)
(* Generic helpers.                                                        *)
(***************************************************************************)
Max(a, b) == IF a >= b THEN a ELSE b

Range(s) == {s[i] : i \in 1..Len(s)}

RECURSIVE SumSeq(_)
SumSeq(s) == IF s = <<>> THEN 0 ELSE s[1] + SumSeq(Tail(s))

\* sorted(xs) for a sequence of distinct integers
RECURSIVE SortedSeq(_)
SortedSeq(S) ==
    IF S = {} THEN <<>>
    ELSE LET m == CHOOSE x \in S : \A y \in S : x <= y
         IN  <<m>> \o SortedSeq(S \ {m})

\* Python truthiness of a price column: None and 0 are false
Truthy(x) == x # NULL /\ x # 0

\* a or b
Or(a, b) == IF Truthy(a) THEN a ELSE b

(***************************************************************************)
(* Lines 300-311: what generate_sales derives from the two tables.         *)
(***************************************************************************)
\* line 303: 'price': (p[3] or p[4] or 0)
Price(p) == Or(p.price_after_offer, Or(p.current_price, 0))

\* line 303: prod_map, keyed by product_id (a later row replaces an earlier one)
ProdIds == {products[i].product_id : i \in 1..Len(products)}

prod_map ==
    [pid \in ProdIds |->
        LET last == CHOOSE i \in 1..Len(products) :
                        /\ products[i].product_id = pid
                        /\ \A j \in 1..Len(products) :
                               products[j].product_id = pid => j <= i
        IN  [name |-> products[last].product_name,
             category_id |-> products[last].category_id,
             price |-> Price(products[last])]]

\* fault: the variant rows collected without their product (one list for every product)
variants_by_product_Ungrouped(pid) == [i \in 1..Len(variants) |-> variants[i].variant_id]

\* lines 304-307, 338: variants_by_product.get(pid): the variant ids of the rows of
\* that product, in row order; <<>> stands for None (no such key), which is as false
VariantRowsOf(pid) == SelectSeq(variants, LAMBDA v : v.product_id = pid)

variants_by_product(pid) ==
    [i \in 1..Len(VariantRowsOf(pid)) |-> VariantRowsOf(pid)[i].variant_id]

\* line 308
product_ids_sorted == SortedSeq(ProdIds)

\* line 309: 1.0/(i+1)**0.9 for rank i, in ten-thousandths
RawWeight(i) == <<10000, 5359, 3720, 2872>>[i + 1]

\* the draws and the normalised weights are fixed-point numbers with this many units in 1
WeightScale == 10000

\* line 310
WeightSum == SumSeq([i \in 1..Len(product_ids_sorted) |-> RawWeight(i - 1)])

\* line 311: [(pid, w/s)]; the division rounds, so the weights may sum to less than 1
popularity_weights ==
    [i \in 1..Len(product_ids_sorted) |->
        <<product_ids_sorted[i], (RawWeight(i - 1) * WeightScale) \div WeightSum>>]

\* fault: the test written r < cum
RECURSIVE Walk_Strict(_, _, _, _)
Walk_Strict(pop, r, i, cum) ==
    IF i > Len(pop) THEN pop[Len(pop)][1]
    ELSE IF r < cum + pop[i][2] THEN pop[i][1]
    ELSE Walk_Strict(pop, r, i + 1, cum + pop[i][2])

\* lines 313-318, for the draw r of random.random()
RECURSIVE Walk(_, _, _, _)
Walk(pop, r, i, cum) ==
    IF i > Len(pop) THEN pop[Len(pop)][1]
    ELSE IF r <= cum + pop[i][2] THEN pop[i][1]
    ELSE Walk(pop, r, i + 1, cum + pop[i][2])

sample_product_id(pop, r) == Walk(pop, r, 1, 0)

(***************************************************************************)
(* Lines 325-333: the day's demand.                                        *)
(***************************************************************************)
\* line 327: holidays.get(date_str)
HolidayGet(date_str) ==
    IF date_str \in DOMAIN holidays THEN <<holidays[date_str]>> ELSE <<>>

\* line 327: truthiness of holiday_name (None and "" are false)
NameTruthy(holiday_name) == holiday_name # <<>> /\ holiday_name[1] # ""

\* lines 328-331, in thousandths
Mult(is_weekend, is_holiday, month) ==
    LET m0 == 1000
        m1 == IF is_weekend = 1 THEN (m0 * WEEKEND_MULTIPLIER) \div 10 ELSE m0
        m2 == IF is_holiday = 1 THEN (m1 * FESTIVAL_MULTIPLIER) \div 10 ELSE m1
        m3 == IF month \in {10, 11, 12} THEN (m2 * SEASONAL_MULTIPLIER) \div 10 ELSE m2
    IN  m3

\* fault: the count not floored at 1
DayTxnCount_NoFloor(g) == g

\* line 333: max(1, int(g)) for the value g that random.gauss returns, truncated
DayTxnCount(g) == Max(1, g)

\* lines 325-333 for one date and one gauss draw
DayLocals(dt, g) ==
    LET wd           == Weekday(dt)
        is_weekend   == IF wd >= 5 THEN 1 ELSE 0
        date_str     == Strftime(dt)
        holiday_name == HolidayGet(date_str)
        is_holiday   == IF NameTruthy(holiday_name) THEN 1 ELSE 0
        mult         == Mult(is_weekend, is_holiday, dt.month)
    IN  [is_weekend |-> is_weekend, date_str |-> date_str,
         holiday_name |-> holiday_name, is_holiday |-> is_holiday,
         mult |-> mult, expected |-> AVG_TRANSACTIONS_PER_DAY * mult,
         day_txn_count |-> DayTxnCount(g)]

(***************************************************************************)
(* Lines 341-347: one sale row.                                            *)
(***************************************************************************)
\* line 342: float(prod_map[pid]['price'] or 0)
UnitPrice(pid) == Or(prod_map[pid].price, 0)

\* round(x, 2) of a value in thousandths: to the nearest hundredth, a tie to the even one
Round2(x) ==
    LET q == x \div 10
        r == x % 10
    IN  IF r < 5 THEN q * 10
        ELSE IF r > 5 THEN (q + 1) * 10
        ELSE IF q % 2 = 0 THEN q * 10 ELSE (q + 1) * 10

\* fault: the total truncated to two decimals instead of rounded
TotalPrice_Truncated(unit_price, qty) == ((unit_price * qty) \div 10) * 10

\* line 343
TotalPrice(unit_price, qty) == Round2(unit_price * qty)

\* line 344: the tuple bound to insert_sql
SaleRow(txn_id, pid, var, qty) ==
    [transaction_id |-> txn_id, sale_date |-> today.date_str, product_id |-> pid,
     variant_id |-> var, quantity |-> qty, unit_price |-> UnitPrice(pid),
     total_price |-> TotalPrice(UnitPrice(pid), qty),
     is_weekend |-> today.is_weekend, is_holiday |-> today.is_holiday,
     holiday_name |-> today.holiday_name]

\* fault: the batch test written commit_counter > BATCH_COMMIT
ShouldCommit_Late(counter, batch) == counter > batch

\* line 346
ShouldCommit(counter, batch) == counter >= batch

(***************************************************************************)
(* The inputs explored.                                                    *)
(***************************************************************************)
ProductRow(id, after, current) ==
    [product_id |-> id, product_name |-> "Style", category_id |-> 1,
     price_after_offer |-> after, current_price |-> current]

VariantRow(vid, pid) == [variant_id |-> vid, product_id |-> pid]

\* <<rows of products, rows of product_variants>>
EmptyCatalog == << <<>>, <<VariantRow(10, 1)>> >>

\* one product on offer, and one product without variants
SmallCatalog ==
    << <<ProductRow(1, 125, 1000), ProductRow(2, NULL, 1250)>>,
       <<VariantRow(10, 1)>> >>

\* rows out of id order; an offer price of 0; a product without any price; a product
\* without variants; a variant of a product that is not in the catalog
LargeCatalog ==
    << <<ProductRow(2, 0, 1250), ProductRow(1, NULL, NULL), ProductRow(3, NULL, 0)>>,
       <<VariantRow(20, 2), VariantRow(21, 1), VariantRow(22, 4)>> >>

Catalogs == {EmptyCatalog, SmallCatalog, LargeCatalog}

\* a Saturday before a Sunday that opens October; a Sunday that ends a year; a
\* Wednesday before a leap day
StartDates == {Date(2023, 9, 30), Date(2023, 12, 31), Date(2024, 2, 28)}

EndDates(s) == {MinusOneDay(s)} \cup {PlusDays(s, n) : n \in 0..MaxSpan}

\* no holiday known; the start date a named holiday; the start date a key whose name is empty
HolidayLookups(s) == { <<>>, Strftime(s) :> "Diwali", Strftime(s) :> "" }

\* the values int(random.gauss(expected, expected*0.16)) is given, after n attempts
GaussDraws(n) == (0 - 1)..Max(0, MaxTxn - n)

\* the values random.random() may take, in units of 1/WeightScale
RandomDraws == {0, 3000, 6000, 9000, 9999}

\* random.choices([1,2,3], weights=[0.86,0.12,0.02])[0]
Quantities == {1, 2, 3}

NoDay ==
    [is_weekend |-> 0, date_str |-> <<>>, holiday_name |-> <<>>, is_holiday |-> 0,
     mult |-> 0, expected |-> 0, day_txn_count |-> 0]

(***************************************************************************)
(* The state machine.                                                      *)
(***************************************************************************)
Init ==
    /\ START_DATE \in StartDates
    /\ END_DATE \in EndDates(START_DATE)
    /\ BATCH_COMMIT \in 1..MaxBatch
    /\ holidays \in HolidayLookups(START_DATE)
    /\ \E c \in Catalogs :
          /\ products = c[1]
          /\ variants = c[2]
          \* the large catalog is run without holidays, to keep the state space small
          /\ c = LargeCatalog => holidays = <<>>
    /\ pc = "start"
    /\ current_date = START_DATE
    /\ txn_counter = 0
    /\ rows_inserted = 0
    /\ commit_counter = 0
    /\ today = NoDay
    /\ loop_left = 0
    /\ pending = <<>>
    /\ sales = <<>>
    /\ emitted = <<>>
    /\ attempts = <<>>
    /\ visited = <<>>
    /\ commits = <<>>
    /\ sample = <<>>

\* conn.commit(): the open transaction becomes durable
Commit ==
    /\ sales' = sales \o pending
    /\ pending' = <<>>
    /\ commits' = Append(commits, Len(pending))

\* fault: the empty catalog is not rejected
Setup_NoCheck ==
    /\ pc = "start"
    /\ pc' = "day"
    /\ current_date' = START_DATE
    /\ txn_counter' = 0
    /\ rows_inserted' = 0
    /\ commit_counter' = 0
    /\ UNCHANGED <<sample, config, today, loop_left, db, hist>>

\* lines 300-323: read the tables, raise on an empty catalog, set the loop variables
Setup ==
    /\ pc = "start"
    /\ IF products = <<>>
       THEN /\ pc' = "error"
            /\ UNCHANGED <<current_date, txn_counter, rows_inserted, commit_counter>>
       ELSE /\ pc' = "day"
            /\ current_date' = START_DATE
            /\ txn_counter' = 0
            /\ rows_inserted' = 0
            /\ commit_counter' = 0
    /\ UNCHANGED <<sample, config, today, loop_left, db, hist>>

\* lines 324-333: the loop test holds; the day's flags, multiplier and count
DayBegin ==
    /\ pc = "day"
    /\ DateLeq(current_date, END_DATE)
    /\ \E g \in GaussDraws(txn_counter) :
          /\ today' = DayLocals(current_date, g)
          /\ loop_left' = DayTxnCount(g)
    /\ visited' = Append(visited, current_date)
    /\ pc' = "txn"
    /\ UNCHANGED <<sample, config, current_date, txn_counter, rows_inserted, commit_counter,
                   db, emitted, attempts, commits>>

\* line 336
NextTxnCounter(n) == n + 1

\* lines 335-348: one iteration of the inner loop
Txn ==
    /\ pc = "txn"
    /\ loop_left > 0
    /\ loop_left' = loop_left - 1
    /\ txn_counter' = NextTxnCounter(txn_counter)
    /\ \E r \in RandomDraws :
          LET txn_id == TxnId(today.date_str, txn_counter')
              pid    == sample_product_id(popularity_weights, r)
              vs     == variants_by_product(pid)
          IN  IF vs = <<>>
              THEN /\ attempts' = Append(attempts, [n |-> txn_counter', day |-> current_date,
                                                   pid |-> pid, row |-> <<>>])
                   /\ UNCHANGED <<rows_inserted, commit_counter, db, emitted, commits>>
              ELSE \E var \in Range(vs), qty \in Quantities :
                      LET row == SaleRow(txn_id, pid, var, qty)
                      IN  /\ attempts' = Append(attempts,
                                                [n |-> txn_counter', day |-> current_date,
                                                 pid |-> pid, row |-> <<row>>])
                          /\ emitted' = Append(emitted, row)
                          /\ rows_inserted' = rows_inserted + 1
                          /\ IF ShouldCommit(commit_counter + 1, BATCH_COMMIT)
                             THEN /\ sales' = sales \o Append(pending, row)
                                  /\ pending' = <<>>
                                  /\ commits' = Append(commits, Len(pending) + 1)
                                  /\ commit_counter' = 0
                             ELSE /\ pending' = Append(pending, row)
                                  /\ commit_counter' = commit_counter + 1
                                  /\ UNCHANGED <<sales, commits>>
    /\ UNCHANGED <<sample, config, pc, current_date, today, visited>>

\* fault: the transaction counter restarts with every day
DayEnd_ResetCounter ==
    /\ pc = "txn"
    /\ loop_left <= 0
    /\ current_date' = PlusOneDay(current_date)
    /\ txn_counter' = 0
    /\ pc' = "day"
    /\ UNCHANGED <<sample, config, rows_inserted, commit_counter, today, loop_left, db, hist>>

\* line 349: the inner loop is over (range of a count below 1 is empty)
DayEnd ==
    /\ pc = "txn"
    /\ loop_left <= 0
    /\ current_date' = PlusOneDay(current_date)
    /\ pc' = "day"
    /\ UNCHANGED <<sample, config, txn_counter, rows_inserted, commit_counter, today, loop_left,
                   db, hist>>

\* fault: the run ends without the final commit
Finish_NoCommit ==
    /\ pc = "day"
    /\ ~DateLeq(current_date, END_DATE)
    /\ pc' = "done"
    /\ UNCHANGED <<sample, config, locals, db, hist>>

\* line 350: the loop test fails; the final commit
Finish ==
    /\ pc = "day"
    /\ ~DateLeq(current_date, END_DATE)
    /\ Commit
    /\ pc' = "done"
    /\ UNCHANGED <<sample, config, locals, emitted, attempts, visited>>

\* the caller interrupts the run: the open transaction is never committed
Interrupt ==
    /\ pc \in {"start", "day", "txn"}
    /\ pc' = "interrupted"
    /\ pending' = <<>>
    /\ UNCHANGED <<sample, config, locals, sales, hist>>

Run == Setup \/ DayBegin \/ Txn \/ DayEnd \/ Finish

Next == Run \/ Interrupt

Spec == Init /\ [][Next]_vars

(***************************************************************************)
(* The sampler on its own: one call of sample_product_id on the            *)
(* distribution built from a catalog, for every draw in [0, 1).            *)
(***************************************************************************)
\* catalogs of one to four products, their rows in and out of id order
SamplerCatalogs ==
    { <<ProductRow(7, 125, 1000)>>,
      SmallCatalog[1],
      LargeCatalog[1],
      <<ProductRow(4, NULL, 1250), ProductRow(9, 125, 1000),
        ProductRow(1, 0, 0), ProductRow(6, 1250, NULL)>> }

\* every value of random.random(), in units of 1/WeightScale
AllDraws == 0..(WeightScale - 1)

SampleInit ==
    /\ START_DATE = Date(2023, 1, 1)
    /\ END_DATE = Date(2023, 1, 1)
    /\ BATCH_COMMIT = 1
    /\ holidays = <<>>
    /\ products \in SamplerCatalogs
    /\ variants = <<>>
    /\ pc = "start"
    /\ current_date = START_DATE
    /\ txn_counter = 0
    /\ rows_inserted = 0
    /\ commit_counter = 0
    /\ today = NoDay
    /\ loop_left = 0
    /\ pending = <<>>
    /\ sales = <<>>
    /\ emitted = <<>>
    /\ attempts = <<>>
    /\ visited = <<>>
    /\ commits = <<>>
    /\ sample = <<>>

\* line 337: pid=sample_product_id(popularity_weights), with the draw of line 314
Sample ==
    /\ sample = <<>>
    /\ \E r \in AllDraws :
          sample' = <<[r |-> r, pid |-> sample_product_id(popularity_weights, r)]>>
    /\ UNCHANGED <<config, pc, locals, db, hist>>

SampleSpec == SampleInit /\ [][Sample]_vars

\* the uninterrupted runs without holidays, with the largest batch size, over the
\* catalogs other than the large one: the runs on which the progress of the day loop
\* is verified
DayInit ==
    /\ Init
    /\ holidays = <<>>
    /\ BATCH_COMMIT = MaxBatch
    /\ products # LargeCatalog[1]

DaySpec == DayInit /\ [][Run]_vars

(***************************************************************************)
(* Helpers of the properties.                                              *)
(***************************************************************************)
IsPrefix(a, b) == Len(a) <= Len(b) /\ SubSeq(b, 1, Len(a)) = a

DigitVal(c) == CHOOSE d \in 0..9 : DigitChar(d) = c

RECURSIVE DecimalValue(_)
DecimalValue(s) ==
    IF s = <<>> THEN 0 ELSE 10 * DecimalValue(SubSeq(s, 1, Len(s) - 1)) + DigitVal(s[Len(s)])

\* the number written after the dash of a transaction identifier
NumericSuffix(id) ==
    LET dash == CHOOSE i \in 1..Len(id) : id[i] = "-"
    IN  DecimalValue(SubSeq(id, dash + 1, Len(id)))

\* the rows of table product_variants that belong to a product
OwnVariants(pid) ==
    {variants[i].variant_id : i \in {j \in 1..Len(variants) : variants[j].product_id = pid}}

\* the rows the attempts produced, in order
RECURSIVE RowsOf(_)
RowsOf(as) == IF as = <<>> THEN <<>> ELSE as[1].row \o RowsOf(Tail(as))

RangeEndsBeforeStart == ~DateLeq(START_DATE, END_DATE)

(***************************************************************************)
(* C1: the numeric suffix of the transaction identifier grows strictly     *)
(* from one attempted transaction to the next over the whole run, day      *)
(* boundaries included, so no two emitted rows carry the same identifier.  *)
(***************************************************************************)
C1_TxnIdsUnique ==
    /\ \A i \in 1..Len(attempts) - 1 : attempts[i].n < attempts[i + 1].n
    /\ \A i \in 1..Len(attempts) :
          attempts[i].row # <<>> =>
              NumericSuffix(attempts[i].row[1].transaction_id) = attempts[i].n
    /\ \A i, j \in 1..Len(emitted) :
          i < j => /\ NumericSuffix(emitted[i].transaction_id)
                        < NumericSuffix(emitted[j].transaction_id)
                   /\ emitted[i].transaction_id # emitted[j].transaction_id

\* rows of two different days have been emitted
C1_Witness ==
    /\ Len(emitted) >= 2
    /\ emitted[1].sale_date # emitted[Len(emitted)].sale_date

(***************************************************************************)
(* C2: when the run completes normally every emitted row is committed: the *)
(* committed rows are the emitted rows, rows_inserted of them, and nothing *)
(* is left in the open transaction.                                        *)
(***************************************************************************)
C2_AllCommittedAtEnd ==
    pc = "done" =>
        /\ sales = emitted
        /\ Len(sales) = rows_inserted
        /\ pending = <<>>

\* a completed run whose row count is above the batch size and no multiple of it
C2_Witness ==
    /\ pc = "done"
    /\ rows_inserted > BATCH_COMMIT
    /\ rows_inserted % BATCH_COMMIT # 0

(***************************************************************************)
(* C3: the rows emitted but not committed never exceed BATCH_COMMIT; every *)
(* commit before the final one covers exactly BATCH_COMMIT rows; and until *)
(* the final commit (so also if the run is interrupted) the committed rows *)
(* are a prefix of the emitted rows whose length is a multiple of          *)
(* BATCH_COMMIT.                                                           *)
(***************************************************************************)
C3_BatchedCommits ==
    /\ Len(emitted) - Len(sales) <= BATCH_COMMIT \/ pc = "interrupted"
    /\ Len(pending) <= BATCH_COMMIT
    \* between two steps the count is below the batch size: reaching it has committed
    /\ pc \in {"start", "day", "txn"} => Len(pending) < BATCH_COMMIT
    /\ pc \in {"start", "day", "txn"} => commit_counter = Len(pending)
    /\ \A i \in 1..Len(commits) :
          (pc # "done" \/ i < Len(commits)) => commits[i] = BATCH_COMMIT
    /\ pc # "done" =>
          /\ IsPrefix(sales, emitted)
          /\ Len(sales) % BATCH_COMMIT = 0
          /\ Len(sales) = Len(commits) * BATCH_COMMIT

\* an interrupted run that keeps a committed batch and has lost later rows
C3_Witness ==
    /\ pc = "interrupted"
    /\ Len(sales) >= BATCH_COMMIT
    /\ Len(emitted) > Len(sales)

(***************************************************************************)
(* C4 as written: when the end date is before the start date, or the       *)
(* catalog is empty, generate_sales raises an error: such a run never      *)
(* completes normally.                                                     *)
(***************************************************************************)
C4_Original ==
    (RangeEndsBeforeStart \/ products = <<>>) => pc # "done"

(***************************************************************************)
(* C4 as amended: an empty catalog raises the error before any day-loop    *)
(* iteration and before any row; an end date before the start date raises  *)
(* nothing: with a catalog the run completes normally with no day-loop     *)
(* iteration, no row and one empty commit.                                 *)
(***************************************************************************)
C4_ConfigErrors ==
    /\ products = <<>> =>
          /\ pc \in {"start", "error", "interrupted"}
          /\ visited = <<>> /\ attempts = <<>> /\ emitted = <<>> /\ sales = <<>>
    /\ pc = "error" => products = <<>>
    /\ (RangeEndsBeforeStart /\ products # <<>>) =>
          /\ pc \in {"start", "day", "done", "interrupted"}
          /\ visited = <<>> /\ attempts = <<>> /\ emitted = <<>> /\ sales = <<>>
          /\ pc = "done" => commits = <<0>>

\* a run over a range that ends before it starts has completed normally
C4_Witness ==
    /\ pc = "done"
    /\ RangeEndsBeforeStart
    /\ visited = <<>>

(***************************************************************************)
(* C5: every attempt advances the counter by exactly 1, emits a row if and *)
(* only if the sampled product has a variant, with a variant of that       *)
(* product, and is never retried: the emitted rows number the attempts     *)
(* minus the attempts that sampled a product without variants.             *)
(***************************************************************************)
C5_AttemptsAndDrops ==
    /\ Len(attempts) = txn_counter
    /\ \A i \in 1..Len(attempts) :
          /\ attempts[i].n = i
          /\ attempts[i].row # <<>> <=> OwnVariants(attempts[i].pid) # {}
          /\ attempts[i].row # <<>> =>
                /\ attempts[i].row[1].product_id = attempts[i].pid
                /\ attempts[i].row[1].variant_id \in OwnVariants(attempts[i].pid)
    /\ emitted = RowsOf(attempts)
    /\ rows_inserted = Len(emitted)
    /\ Len(emitted) = Len(attempts)
           - Cardinality({i \in 1..Len(attempts) : OwnVariants(attempts[i].pid) = {}})

\* a dropped attempt followed by an attempt that emitted a row
C5_Witness ==
    /\ Len(attempts) >= 2
    /\ attempts[1].row = <<>>
    /\ attempts[2].row # <<>>
    /\ attempts[2].row[1].transaction_id = TxnId(today.date_str, 2)

(***************************************************************************)
(* C6 as written: over a range of exactly one day the run makes exactly    *)
(* one day-loop iteration and flushes the commit buffer exactly once, at   *)
(* the end, whatever the batch size and the day's transaction count.       *)
(***************************************************************************)
C6_Original ==
    (START_DATE = END_DATE /\ pc = "done") =>
        /\ Len(visited) = 1
        /\ Len(commits) = 1

(***************************************************************************)
(* C6 as amended: over a range of exactly one day the run makes exactly    *)
(* one day-loop iteration; the buffer is flushed at the end of the run and *)
(* also each time the buffered count reaches BATCH_COMMIT during the day,  *)
(* rows_inserted div BATCH_COMMIT + 1 times in all, so exactly once only   *)
(* when the day emits fewer than BATCH_COMMIT rows.                        *)
(***************************************************************************)
C6_OneDayRange ==
    START_DATE = END_DATE =>
        /\ Len(visited) <= 1
        /\ pc = "done" =>
              /\ visited = <<START_DATE>>
              /\ Len(commits) = (rows_inserted \div BATCH_COMMIT) + 1
              /\ commits[Len(commits)] = rows_inserted % BATCH_COMMIT
              /\ Len(commits) = 1 <=> rows_inserted < BATCH_COMMIT

\* a one-day run that emitted a row and flushed once, at the end
C6_Witness ==
    /\ START_DATE = END_DATE
    /\ pc = "done"
    /\ commits = <<1>>

(***************************************************************************)
(* C7 as written: the day's multiplier is the product of the weekend       *)
(* factor if the date is a Saturday or Sunday, the festival factor if the  *)
(* date's ISO string is a key of the holiday lookup, whatever its name,    *)
(* and 1.2 if the month is October to December; and is_holiday is 1        *)
(* exactly when the festival factor was applied.                           *)
(***************************************************************************)
C7_Claim ==
    pc = "txn" =>
        LET weekend  == Weekday(current_date) \in {5, 6}
            festival == Strftime(current_date) \in DOMAIN holidays
            season   == current_date.month \in {10, 11, 12}
        IN  /\ today.mult = (IF weekend THEN WEEKEND_MULTIPLIER ELSE 10)
                            * (IF festival THEN FESTIVAL_MULTIPLIER ELSE 10)
                            * (IF season THEN SEASONAL_MULTIPLIER ELSE 10)
            /\ today.is_holiday = 1 <=> festival

(***************************************************************************)
(* C8: every emitted row has a quantity of 1, 2 or 3, the unit price kept  *)
(* for its product, and a total price that is unit price times quantity    *)
(* rounded to 2 decimals.                                                  *)
(***************************************************************************)
C8_QuantityAndTotal ==
    \A i \in 1..Len(emitted) :
        LET row   == emitted[i]
            exact == row.unit_price * row.quantity
            off   == IF row.total_price >= exact THEN row.total_price - exact
                     ELSE exact - row.total_price
        IN  /\ row.quantity \in {1, 2, 3}
            /\ row.unit_price = prod_map[row.product_id].price
            /\ row.total_price % 10 = 0
            /\ off <= 5
            /\ off = 5 => (row.total_price \div 10) % 2 = 0

\* a row whose exact total lies between two hundredths
C8_Witness ==
    \E i \in 1..Len(emitted) :
        /\ emitted[i].quantity = 3
        /\ (emitted[i].unit_price * 3) % 10 # 0

(***************************************************************************)
(* C9 as written: the unit price of a product is its price after offer     *)
(* whenever that is present, 0 included, otherwise its current price       *)
(* whenever that is present, and 0 only when neither is present.           *)
(***************************************************************************)
C9_Claim ==
    \A i \in 1..Len(emitted) :
        LET p == CHOOSE q \in Range(products) : q.product_id = emitted[i].product_id
        IN  emitted[i].unit_price =
                IF p.price_after_offer # NULL THEN p.price_after_offer
                ELSE IF p.current_price # NULL THEN p.current_price
                ELSE 0

(***************************************************************************)
(* C10: for a start date not after the end date the day loop (which a run   *)
(* enters when the catalog is not empty) visits every                      *)
(* date from the start date to the end date once, in ascending order and   *)
(* without a gap, attempts at least one transaction on each, and the run   *)
(* reaches the final commit: a run that has not ended is never stuck, and  *)
(* every step lowers a measure that cannot fall for ever.                  *)
(***************************************************************************)
C10_Visits ==
    /\ \A k \in 1..Len(visited) :
          /\ ToOrdinal(visited[k]) = ToOrdinal(START_DATE) + k - 1
          /\ DateLeq(visited[k], END_DATE)
          /\ (k < Len(visited) \/ pc \in {"day", "done"}) =>
                \E i \in 1..Len(attempts) : attempts[i].day = visited[k]
    /\ \A i \in 1..Len(attempts) : attempts[i].day \in Range(visited)
    /\ products # <<>> => pc # "error"
    /\ (pc = "done" /\ DateLeq(START_DATE, END_DATE)) =>
          Len(visited) = ToOrdinal(END_DATE) - ToOrdinal(START_DATE) + 1

\* a measure of the work left: it falls, in lexicographic order, with every step,
\* and its components are natural numbers, so no run goes on for ever
Rank ==
    <<IF pc \in {"start", "day", "txn"} THEN 1 ELSE 0,
      IF pc = "start" THEN 1 ELSE 0,
      Max(0, ToOrdinal(END_DATE) - ToOrdinal(current_date) + 1),
      IF pc = "day" THEN 1 ELSE 0,
      Max(0, loop_left)>>

RECURSIVE LexLess(_, _)
LexLess(a, b) ==
    /\ a # <<>>
    /\ \/ a[1] < b[1]
       \/ a[1] = b[1] /\ LexLess(Tail(a), Tail(b))

\* a run that has not ended can take its next step
C10_NotStuck == pc \in {"start", "day", "txn"} => ENABLED Run

C10_DayLoop ==
    /\ [](C10_Visits /\ C10_NotStuck)
    /\ [][LexLess(Rank', Rank)]_vars

\* a completed run whose last day was a leap day
C10_Witness ==
    /\ pc = "done"
    /\ Len(visited) = 2
    /\ visited[2] = Date(2024, 2, 29)

(***************************************************************************)
(* C11: for a non-empty distribution and a draw r in [0, 1) the sampler    *)
(* walks the products in ascending id order and returns the first product  *)
(* whose cumulative weight is at least r, and the last product when no     *)
(* cumulative weight reaches r; the result is always a product id of the   *)
(* catalog.                                                                *)
(***************************************************************************)
\* the ids of the rows of table products
CatalogIds == {products[i].product_id : i \in 1..Len(products)}

\* the weight accumulated over the first k entries of the distribution
CumWeight(k) == SumSeq([i \in 1..k |-> popularity_weights[i][2]])

C11_FirstReached ==
    sample # <<>> =>
        LET r    == sample[1].r
            pid  == sample[1].pid
            pop  == popularity_weights
            hits == {k \in 1..Len(pop) : CumWeight(k) >= r}
        IN  /\ Len(pop) = Cardinality(CatalogIds)
            /\ \A i \in 1..Len(pop) : pop[i][1] \in CatalogIds
            /\ \A i, j \in 1..Len(pop) : i < j => pop[i][1] < pop[j][1]
            /\ pid \in CatalogIds
            /\ hits # {} => \E k \in hits : /\ \A h \in hits : k <= h
                                            /\ pid = pop[k][1]
            /\ hits = {} => /\ pid = pop[Len(pop)][1]
                            /\ \A q \in CatalogIds : q <= pid

\* a draw above every cumulative weight: the last product is returned
C11_Witness ==
    /\ sample # <<>>
    /\ Len(popularity_weights) >= 3
    /\ sample[1].r > CumWeight(Len(popularity_weights))
    /\ sample[1].pid = popularity_weights[Len(popularity_weights)][1]

\* a draw equal to a cumulative weight: that product is returned, not the next one
C11_MeetsWitness ==
    /\ sample # <<>>
    /\ sample[1].r = CumWeight(1)
    /\ Len(popularity_weights) >= 2
    /\ sample[1].pid = popularity_weights[1][1]

====
